---- MODULE Spec2Model ----
(***************************************************************************)
(* Model of app.py, the Streamlit quiz on Italian prepositions.            *)
(*                                                                         *)
(* st.session_state is the record session_state.  One action is one user   *)
(* event together with the script run (main) that Streamlit starts for     *)
(* it: the on_click callback of a preposition button runs before the       *)
(* script body, with the `answers` and `exps` its closure captured in the  *)
(* previous script run; `if st.button(...)` branches run at their place in *)
(* the script body.                                                        *)
(*                                                                         *)
(* Strings that the program transforms (sentences, prepositions, accepted  *)
(* answers) are sequences of one-character strings; the fixed fragments of *)
(* the messages are single tokens, written without accents or emoji.       *)
(*                                                                         *)
(* Spec is the session; FnSpec applies render_sentence_progress, the       *)
(* evaluation of one answer and load_cards to inputs drawn from bounded    *)
(* sets.                                                                   *)
(***************************************************************************)
EXTENDS Bags, FiniteSets, Integers, Sequences, TLC

VARIABLES session_state, card, shown, seen, event, pre, input, output

vars == <<session_state, card, shown, seen, event, pre, input, output>>

(***************************************************************************)
(* Bounds.                                                                 *)
(***************************************************************************)
\* number of cards in the loaded deck
NumCards == 2
\* largest value of score_tot explored
MaxTot == 3
\* longest sentence template given to the renderer on its own
MaxTmplLen == 7

(***************************************************************************)
(* str.upper()                                                             *)
(***************************************************************************)
LowerToUpper ==
    [c \in {"a","b","c","d","e","f","g","h","i","j","k","l","m",
            "n","o","p","q","r","s","t","u","v","w","x","y","z"} |->
       CASE c = "a" -> "A" [] c = "b" -> "B" [] c = "c" -> "C" [] c = "d" -> "D"
         [] c = "e" -> "E" [] c = "f" -> "F" [] c = "g" -> "G" [] c = "h" -> "H"
         [] c = "i" -> "I" [] c = "j" -> "J" [] c = "k" -> "K" [] c = "l" -> "L"
         [] c = "m" -> "M" [] c = "n" -> "N" [] c = "o" -> "O" [] c = "p" -> "P"
         [] c = "q" -> "Q" [] c = "r" -> "R" [] c = "s" -> "S" [] c = "t" -> "T"
         [] c = "u" -> "U" [] c = "v" -> "V" [] c = "w" -> "W" [] c = "x" -> "X"
         [] c = "y" -> "Y" [] c = "z" -> "Z"]

upper(s) ==
    [k \in DOMAIN s |-> IF s[k] \in DOMAIN LowerToUpper THEN LowerToUpper[s[k]] ELSE s[k]]

\* "/".join(strs)
RECURSIVE join(_, _)
join(sep, strs) ==
    IF Len(strs) = 0 THEN <<>>
    ELSE IF Len(strs) = 1 THEN strs[1]
    ELSE strs[1] \o sep \o join(sep, Tail(strs))

(***************************************************************************)
(* The cards of cards.json: `it` is the sentence with its blanks, `answers` *)
(* holds, per blank, the accepted prepositions; `explanations` one text    *)
(* per blank.  Card k of the file is                                       *)
(* AllCards[k]; the loaded deck is the first NumCards of them.             *)
(***************************************************************************)
AllCards ==
    << [it |-> <<"V"," ","_","_","_"," ","s"," ","_","_","_"," ","b">>,
        answers |-> << <<<<"A">>>>, <<<<"I","N">>>> >>,
        explanations |-> <<"exp-a", "exp-in">>],
       [it |-> <<"A"," ","_","_","_"," ","m">>,
        answers |-> << << <<"t","r","a">>, <<"F","R","A">> >> >>,
        explanations |-> <<"exp-tra">>],
       [it |-> <<"L"," ","_","_","_"," ","M"," ","_","_","_">>,
        answers |-> << <<<<"D","I">>>>, <<<<"A">>>> >>,
        explanations |-> <<"exp-di", "exp-a2">>],
       [it |-> <<"_","_","_"," ","R"," ","_","_","_"," ","t"," ","_","_","_">>,
        answers |-> << <<<<"d","a">>>>, <<<<"C","O","N">>>>, <<<<"P","E","R">>>> >>,
        explanations |-> <<"exp-da", "exp-con", "exp-per">>] >>

\* json.load: the list in file order, cards named by their position
Deck0 == [k \in 1..NumCards |-> k]

PREPS ==
    << <<"D","I">>, <<"A">>, <<"D","A">>, <<"I","N">>, <<"S","U">>,
       <<"C","O","N">>, <<"P","E","R">>, <<"T","R","A">>, <<"F","R","A">> >>

DefaultFeedback == <<"Clique la bonne preposition.">>

(***************************************************************************)
(* random.shuffle(x): r is the permutation of the positions that the       *)
(* random source draws.                                                    *)
(***************************************************************************)
Perms(n) == {r \in [1..n -> 1..n] : \A a, b \in 1..n : r[a] = r[b] => a = b}

shuffle_with_replacement(x, r) == [k \in DOMAIN x |-> x[r[1]]]

shuffle(x, r) == [k \in DOMAIN x |-> x[r[k]]]

\* the draws of the random source for a deck of NumCards cards
Shuffles == Perms(NumCards)

Id == [k \in 1..NumCards |-> k]

\* load_cards: json.load, then random.shuffle(data)
load_cards(r) == shuffle(Deck0, r)

(***************************************************************************)
(* load_cards with its two sources.  A source is absent (no "cards_json"   *)
(* in st.secrets, no cards.json), invalid (json.loads or the read raises), *)
(* notlist (JSON that is not a list) or a list with its data.  stopped     *)
(* means st.stop() ended the script run; said holds the messages shown.    *)
(***************************************************************************)
load_cards_no_fallback(secret, file, r) ==
    IF secret.kind = "list"
    THEN [stopped |-> FALSE, data |-> shuffle(secret.data, r), said |-> <<>>]
    ELSE IF secret.kind = "invalid"
    THEN [stopped |-> TRUE, data |-> <<>>, said |-> <<"error">>]
    ELSE IF file.kind = "list"
    THEN [stopped |-> FALSE, data |-> shuffle(file.data, r), said |-> <<>>]
    ELSE [stopped |-> TRUE, data |-> <<>>, said |-> <<"error">>]

load_cards_sources(secret, file, r) ==
    LET said == IF secret.kind = "invalid" THEN <<"warning">> ELSE <<>>
    IN  IF secret.kind = "list"
        THEN [stopped |-> FALSE, data |-> shuffle(secret.data, r), said |-> <<>>]
        ELSE IF file.kind = "list"
        THEN [stopped |-> FALSE, data |-> shuffle(file.data, r), said |-> said]
        ELSE [stopped |-> TRUE, data |-> <<>>, said |-> said \o <<"error">>]

(***************************************************************************)
(* str.split(sep) and str.replace(old, new): both scan from the left and   *)
(* take non-overlapping occurrences.                                       *)
(***************************************************************************)
StartsWith(s, x) == Len(s) >= Len(x) /\ SubSeq(s, 1, Len(x)) = x

RECURSIVE split(_, _)
split(s, sep) ==
    IF Len(s) = 0 THEN << <<>> >>
    ELSE IF StartsWith(s, sep) THEN << <<>> >> \o split(SubSeq(s, Len(sep) + 1, Len(s)), sep)
    ELSE LET rest == split(Tail(s), sep)
         IN  << <<Head(s)>> \o rest[1] >> \o Tail(rest)

RECURSIVE replace(_, _, _)
replace(s, old, new) ==
    IF Len(s) = 0 THEN <<>>
    ELSE IF StartsWith(s, old) THEN new \o replace(SubSeq(s, Len(old) + 1, Len(s)), old, new)
    ELSE <<Head(s)>> \o replace(Tail(s), old, new)

RECURSIVE concat(_)
concat(strs) == IF Len(strs) = 0 THEN <<>> ELSE Head(strs) \o concat(Tail(strs))

Marker == <<"_", "_", "_">>
ActiveBlank == <<" ", "[", "_", "_", "_", "]", " ">>
PendingBlank == <<" ", "_", "_", "_", " ">>

(***************************************************************************)
(* render_sentence_progress: i is the 0-based index of enumerate(parts).   *)
(***************************************************************************)
render_sentence_progress_fills_active(sentence_it, answers, blank_index) ==
    LET parts == split(sentence_it, Marker)
        piece(i) ==
            IF i < Len(parts) - 1
            THEN parts[i + 1] \o
                 (IF i <= blank_index /\ i < Len(answers)
                  THEN <<" ">> \o answers[i + 1][1] \o <<" ">>
                  ELSE IF i = blank_index THEN ActiveBlank ELSE PendingBlank)
            ELSE parts[i + 1]
    IN  replace(concat([k \in 1..Len(parts) |-> piece(k - 1)]), <<" ", " ">>, <<" ">>)

render_sentence_progress(sentence_it, answers, blank_index) ==
    LET parts == split(sentence_it, Marker)
        piece(i) ==
            IF i < Len(parts) - 1
            THEN parts[i + 1] \o
                 (IF i < blank_index
                  THEN <<" ">> \o answers[i + 1][1] \o <<" ">>
                  ELSE IF i = blank_index THEN ActiveBlank ELSE PendingBlank)
            ELSE parts[i + 1]
    IN  replace(concat([k \in 1..Len(parts) |-> piece(k - 1)]), <<" ", " ">>, <<" ">>)

(***************************************************************************)
(* init_state, next_card, reset_game: s is st.session_state; the Python    *)
(* index i is 0-based, sequences here are 1-based.                         *)
(***************************************************************************)
init_state(cards) ==
    [cards |-> cards, i |-> 0, blank_i |-> 0, score_ok |-> 0, score_tot |-> 0,
     show_fr |-> FALSE, feedback |-> DefaultFeedback, finished |-> FALSE]

next_card_always_shuffles(s, r) ==
    LET s1 == [s EXCEPT !.i = @ + 1, !.blank_i = 0, !.feedback = DefaultFeedback]
    IN  IF s1.i >= Len(s1.cards)
        THEN [s1 EXCEPT !.cards = shuffle(@, r), !.i = 0, !.finished = TRUE]
        ELSE [s1 EXCEPT !.cards = shuffle(@, r)]

\* init_state with its guard: s is st.session_state on entry
init_state_every_run(s, cards) == init_state(cards)

init_state_once(s, cards) ==
    IF "cards" \in DOMAIN s THEN s ELSE init_state(cards)

next_card_wraps_late(s, r) ==
    LET s1 == [s EXCEPT !.i = @ + 1, !.blank_i = 0, !.feedback = DefaultFeedback]
    IN  IF s1.i > Len(s1.cards)
        THEN [s1 EXCEPT !.cards = shuffle(@, r), !.i = 0, !.finished = TRUE]
        ELSE s1

next_card_keeps_blank(s, r) ==
    LET s1 == [s EXCEPT !.i = @ + 1, !.feedback = DefaultFeedback]
    IN  IF s1.i >= Len(s1.cards)
        THEN [s1 EXCEPT !.cards = shuffle(@, r), !.i = 0, !.finished = TRUE]
        ELSE s1

next_card(s, r) ==
    LET s1 == [s EXCEPT !.i = @ + 1, !.blank_i = 0, !.feedback = DefaultFeedback]
    IN  IF s1.i >= Len(s1.cards)
        THEN [s1 EXCEPT !.cards = shuffle(@, r), !.i = 0, !.finished = TRUE]
        ELSE s1

reset_game_keeps_finished(s, r) ==
    [s EXCEPT !.cards = shuffle(@, r), !.i = 0, !.blank_i = 0, !.score_ok = 0,
              !.score_tot = 0, !.feedback = DefaultFeedback]

reset_game(s, r) ==
    [s EXCEPT !.cards = shuffle(@, r), !.i = 0, !.blank_i = 0, !.score_ok = 0,
              !.score_tot = 0, !.feedback = DefaultFeedback, !.finished = FALSE]

(***************************************************************************)
(* The closure `_` returned by make_onclick(p).                            *)
(* correct: lines 187-191, incorrect: lines 193-194, answer: lines         *)
(* 184-194 for the blank whose accepted answers are ans, whose explanation *)
(* is exp, on a card of n blanks.                                          *)
(***************************************************************************)
HintSuivante == <<"  -> Clique **Carte suivante**.">>

correct_advances_card(s1, p, exp, n) ==
    LET s2 == [s1 EXCEPT !.score_ok = @ + 1,
                         !.feedback = <<"[ok] Correct : **">> \o upper(p) \o <<"** -- ", exp>>,
                         !.blank_i = @ + 1]
    IN  IF s2.blank_i = n
        THEN [s2 EXCEPT !.feedback = @ \o HintSuivante, !.i = (@ + 1) % Len(s2.cards)]
        ELSE s2

correct(s1, p, exp, n) ==
    LET s2 == [s1 EXCEPT !.score_ok = @ + 1,
                         !.feedback = <<"[ok] Correct : **">> \o upper(p) \o <<"** -- ", exp>>,
                         !.blank_i = @ + 1]
    IN  IF s2.blank_i = n
        THEN [s2 EXCEPT !.feedback = @ \o HintSuivante]
        ELSE s2

incorrect(s1, accepted, exp) ==
    [s1 EXCEPT !.feedback = <<"[x] Faux. Bonne reponse : **">> \o join(<<"/">>, accepted)
                            \o <<"**. Raison : ", exp>>]

answer_case_sensitive(s, p, ans, exp, n) ==
    LET accepted == [k \in DOMAIN ans |-> upper(ans[k])]
        s1 == [s EXCEPT !.score_tot = @ + 1]
    IN  IF \E k \in DOMAIN ans : ans[k] = p
        THEN correct(s1, p, exp, n)
        ELSE incorrect(s1, accepted, exp)

answer_total_only_when_wrong(s, p, ans, exp, n) ==
    LET accepted == [k \in DOMAIN ans |-> upper(ans[k])]
    IN  IF \E k \in DOMAIN accepted : accepted[k] = upper(p)
        THEN correct(s, p, exp, n)
        ELSE incorrect([s EXCEPT !.score_tot = @ + 1], accepted, exp)

answer(s, p, ans, exp, n) ==
    LET accepted == [k \in DOMAIN ans |-> upper(ans[k])]
        s1 == [s EXCEPT !.score_tot = @ + 1]
    IN  IF \E k \in DOMAIN accepted : accepted[k] = upper(p)
        THEN correct(s1, p, exp, n)
        ELSE incorrect(s1, accepted, exp)

(***************************************************************************)
(* answers and exps are those of the card c that main read when the        *)
(* closure was created.                                                    *)
(***************************************************************************)
onclick_counts_before_guard(s, p, c) ==
    LET answers == AllCards[c].answers
        exps == AllCards[c].explanations
        bi == s.blank_i
    IN  IF bi >= Len(answers) THEN [s EXCEPT !.score_tot = @ + 1]
        ELSE answer(s, p, answers[bi + 1], exps[bi + 1], Len(answers))

onclick(s, p, c) ==
    LET answers == AllCards[c].answers
        exps == AllCards[c].explanations
        bi == s.blank_i
    IN  IF bi >= Len(answers) THEN s
        ELSE answer(s, p, answers[bi + 1], exps[bi + 1], Len(answers))

\* most blanks on a card
MaxBlanks == 3

(***************************************************************************)
(* Line 172, render_sentence_progress(it, answers, st.session_state.blank_i)*)
(* for card c of the file and blank index b, computed once per card and    *)
(* blank index.                                                            *)
(***************************************************************************)
sentences ==
    [c \in DOMAIN AllCards |->
        [b \in 0..MaxBlanks |->
            render_sentence_progress(AllCards[c].it, AllCards[c].answers, b)]]

(***************************************************************************)
(* main: one script run for the event ev.  c is the card captured by the   *)
(* callbacks of the previous run, fresh the list that load_cards returns   *)
(* in this run, r the draw of the random source for a later shuffle.       *)
(* The result holds the session state at the end of the run, the card read *)
(* at line 165 (captured by the callbacks created in this run) and what    *)
(* the run displayed.                                                      *)
(***************************************************************************)
main(s, c, ev, fresh, r) ==
    LET sc == IF ev.kind = "prep" THEN onclick(s, ev.p, c) ELSE s
        s0 == init_state_once(sc, fresh)
        s1 == IF ev.kind = "rejouer" THEN reset_game(s0, r) ELSE s0
        s2 == [s1 EXCEPT !.show_fr = IF ev.kind = "toggle" THEN ~@ ELSE @]
        cur == s2.cards[s2.i + 1]
        s3 == IF ev.kind = "suivante" THEN next_card(s2, r)
              ELSE IF ev.kind = "recommencer" THEN reset_game(s2, r)
              ELSE s2
    IN  [state |-> s3,
         card |-> cur,
         shown |-> [i |-> s2.i, blank_i |-> s2.blank_i, score_ok |-> s2.score_ok,
                    score_tot |-> s2.score_tot, feedback |-> s2.feedback,
                    sentence |-> sentences[cur][s2.blank_i],
                    success |-> s3.finished]]

Ev(kind, p) == [kind |-> kind, p |-> p]

\* input and output belong to the specification of the functions on their own
NoInput == [fn |-> "none"]
NoOutput == [done |-> FALSE]

\* st.session_state before the first script run of a session
EmptyState == <<>>

\* the card at st.session_state.i, 0 when the index is out of range
CurrentCard(s) == IF s.i + 1 \in DOMAIN s.cards THEN s.cards[s.i + 1] ELSE 0

(***************************************************************************)
(* The draws of load_cards' shuffle in the runs after the first.  The list *)
(* it returns reaches init_state only; two draws are followed, the file    *)
(* order and its reverse, so that in every state the fresh list of some    *)
(* successor differs from the deck of the session.                         *)
(***************************************************************************)
RerunDraws == {Id, [k \in 1..NumCards |-> NumCards + 1 - k]}

(***************************************************************************)
(* seen lists the cards that have been the current card since the last     *)
(* shuffle of the deck (session start, wraparound, reset_game), in order.  *)
(***************************************************************************)
Run(ev, r) ==
    \E rl \in RerunDraws :
        LET out == main(session_state, card, ev, load_cards(rl), r)
            shuffled == \/ ev.kind \in {"rejouer", "recommencer"}
                        \/ /\ ev.kind = "suivante"
                           /\ session_state.i + 1 >= Len(session_state.cards)
        IN  /\ session_state' = out.state
            /\ card' = out.card
            /\ shown' = out.shown
            /\ seen' = IF shuffled THEN <<CurrentCard(out.state)>>
                       ELSE IF ev.kind = "suivante" THEN Append(seen, CurrentCard(out.state))
                       ELSE seen
            /\ event' = ev
            /\ pre' = [state |-> session_state, card |-> card, seen |-> seen]
            /\ UNCHANGED <<input, output>>

(***************************************************************************)
(* First script run of a session: load_cards shuffles, init_state stores.  *)
(***************************************************************************)
Init ==
    \E rl \in Shuffles :
        LET out == main(EmptyState, 1, Ev("start", <<>>), load_cards(rl), Id)
        IN  /\ session_state = out.state
            /\ card = out.card
            /\ shown = out.shown
            /\ seen = <<CurrentCard(out.state)>>
            /\ event = Ev("start", <<>>)
            /\ pre = [state |-> out.state, card |-> out.card, seen |-> <<>>]
            /\ input = NoInput
            /\ output = NoOutput

(***************************************************************************)
(* The user's events.                                                      *)
(***************************************************************************)
PressPrep ==
    \E k \in DOMAIN PREPS :
        /\ \/ session_state.score_tot < MaxTot
           \/ session_state.blank_i >= Len(AllCards[card].answers)
        /\ Run(Ev("prep", PREPS[k]), Id)

PressRejouer == \E r \in Shuffles : Run(Ev("rejouer", <<>>), r)

Toggle == Run(Ev("toggle", <<>>), Id)

PressSuivante == \E r \in Shuffles : Run(Ev("suivante", <<>>), r)

PressRecommencer == \E r \in Shuffles : Run(Ev("recommencer", <<>>), r)

Next == PressPrep \/ PressRejouer \/ Toggle \/ PressSuivante \/ PressRecommencer

Spec == Init /\ [][Next]_vars

(***************************************************************************)
(* The functions on their own: FnSpec draws an input for one function and  *)
(* applies the function to it.  No session runs.                           *)
(***************************************************************************)
RECURSIVE Strings(_, _)
Strings(chars, n) ==
    IF n = 0 THEN {<<>>}
    ELSE LET shorter == Strings(chars, n - 1)
         IN  shorter \cup {<<c>> \o s : c \in chars, s \in {x \in shorter : Len(x) = n - 1}}

TmplChars == {"x", " ", "_"}

Templates == Strings(TmplChars, MaxTmplLen)

\* accepted-answer lists of one blank
AnswerLists == { << <<"A">> >>, << <<"t","r","a">>, <<"F","R","A">> >> }

NumMarkers(sentence_it) == Len(split(sentence_it, Marker)) - 1

RenderInputs ==
    UNION { { [fn |-> "render", it |-> it, answers |-> a, blank_i |-> b] :
                a \in [1..NumMarkers(it) -> AnswerLists], b \in 0..NumMarkers(it) } :
            it \in Templates }

NoSession ==
    /\ session_state = <<>>
    /\ card = 0
    /\ seen = <<>>
    /\ shown = <<>>
    /\ event = Ev("none", <<>>)
    /\ pre = <<>>

\* every spelling of p in upper and lower case
CaseVariants(p) ==
    {v \in [DOMAIN p -> DOMAIN LowerToUpper \cup {LowerToUpper[c] : c \in DOMAIN LowerToUpper}] :
        upper(v) = upper(p)}

Submissions == UNION {CaseVariants(PREPS[k]) : k \in DOMAIN PREPS}

\* accepted-answer lists for the evaluation, spelled in either case
EvalLists == AnswerLists \cup { << <<"D","i">> >>, << <<"i","n">>, <<"A">> >> }

EvalInputs ==
    {[fn |-> "answer", p |-> p, ans |-> a, n |-> n] :
        p \in Submissions, a \in EvalLists, n \in 1..2}

\* a card whose explanations are one short
ShortCard ==
    [answers |-> << <<<<"A">>>>, <<<<"I","N">>>> >>, explanations |-> <<"exp-a">>]

GoodDeck == [k \in 1..NumCards |-> AllCards[k]]

MismatchedDeck == [GoodDeck EXCEPT ![1] = ShortCard]

Sources ==
    {[kind |-> "absent"], [kind |-> "invalid"], [kind |-> "notlist"],
     [kind |-> "list", data |-> GoodDeck], [kind |-> "list", data |-> MismatchedDeck]}

LoadInputs ==
    {[fn |-> "load", secret |-> s, file |-> f, r |-> r] :
        s \in Sources, f \in Sources, r \in Shuffles}

FnInit ==
    /\ NoSession
    /\ input \in RenderInputs \cup EvalInputs \cup LoadInputs
    /\ output = NoOutput

\* the session before the evaluated answer: first blank of the first card
BeforeAnswer == init_state(Deck0)

Evaluate ==
    /\ input.fn = "answer"
    /\ ~output.done
    /\ output' = [done |-> TRUE,
                  val |-> answer(BeforeAnswer, input.p, input.ans, "exp", input.n)]
    /\ UNCHANGED <<session_state, card, shown, seen, event, pre, input>>

\* main lines 149-150: init_state runs only when load_cards returned
Load ==
    /\ input.fn = "load"
    /\ ~output.done
    /\ LET res == load_cards_sources(input.secret, input.file, input.r)
       IN  output' = [done |-> TRUE,
                      stopped |-> res.stopped,
                      said |-> res.said,
                      session |-> IF res.stopped THEN <<>> ELSE init_state(res.data)]
    /\ UNCHANGED <<session_state, card, shown, seen, event, pre, input>>

Render ==
    /\ input.fn = "render"
    /\ ~output.done
    /\ output' = [done |-> TRUE,
                  val |-> render_sentence_progress(input.it, input.answers, input.blank_i)]
    /\ UNCHANGED <<session_state, card, shown, seen, event, pre, input>>

FnNext == Render \/ Evaluate \/ Load

FnSpec == FnInit /\ [][FnNext]_vars

(***************************************************************************)
(* Vocabulary of the properties.  pre is the session state and the         *)
(* captured card before the last event, event the last event.              *)
(***************************************************************************)
\* the card at the session's cardIndex
CardAt(s) == AllCards[s.cards[s.i + 1]]

\* N: the number of blanks of the card at cardIndex
NumBlanks(s) == Len(CardAt(s).answers)

\* the accepted set of the active blank of the card at cardIndex
ActiveAccepted(s) == CardAt(s).answers[s.blank_i + 1]

\* p, compared case-insensitively, is a member of the accepted set of the active blank
IsAccepted(s, p) ==
    \E k \in DOMAIN ActiveAccepted(s) : upper(ActiveAccepted(s)[k]) = upper(p)

\* the incorrect-verdict message for the active blank of the card at cardIndex
IncorrectMessage(s) ==
    <<"[x] Faux. Bonne reponse : **">>
    \o join(<<"/">>, [k \in DOMAIN ActiveAccepted(s) |-> upper(ActiveAccepted(s)[k])])
    \o <<"**. Raison : ", CardAt(s).explanations[s.blank_i + 1]>>

SeqToBag(x) ==
    [c \in {x[k] : k \in DOMAIN x} |-> Cardinality({k \in DOMAIN x : x[k] = c})]

Submitted == event.kind = "prep"
Advanced == event.kind = "suivante"
WasReset == event.kind \in {"rejouer", "recommencer"}
Wrapped == Advanced /\ pre.state.i = Len(pre.state.cards) - 1

TypeOK ==
    /\ session_state.i \in 0..(NumCards - 1)
    /\ session_state.blank_i \in 0..3
    /\ session_state.score_ok \in 0..MaxTot
    /\ session_state.score_tot \in 0..MaxTot
    /\ session_state.show_fr \in BOOLEAN
    /\ session_state.finished \in BOOLEAN
    /\ card \in 1..NumCards
    /\ event.kind \in {"start", "prep", "rejouer", "toggle", "suivante", "recommencer"}

(***************************************************************************)
(* C1: a submitAnswer on a card with blankIndex < N increments blankIndex  *)
(* by exactly 1 iff the submitted preposition, compared                    *)
(* case-insensitively, is in the accepted set of the active blank;         *)
(* otherwise blankIndex is unchanged.                                      *)
(***************************************************************************)
C1_AdvanceIffAccepted ==
    (Submitted /\ pre.state.blank_i < NumBlanks(pre.state)) =>
        IF IsAccepted(pre.state, event.p)
        THEN session_state.blank_i = pre.state.blank_i + 1
        ELSE session_state.blank_i = pre.state.blank_i

(***************************************************************************)
(* C2: once blankIndex equals N, a further submitAnswer, with any          *)
(* preposition, leaves scoreTotal, scoreCorrect, blankIndex and            *)
(* feedbackMessage unchanged.                                              *)
(***************************************************************************)
C2_NoOpAfterSolved ==
    (Submitted /\ pre.state.blank_i = NumBlanks(pre.state)) =>
        /\ session_state.score_tot = pre.state.score_tot
        /\ session_state.score_ok = pre.state.score_ok
        /\ session_state.blank_i = pre.state.blank_i
        /\ session_state.feedback = pre.state.feedback

C2_Witness ==
    /\ Submitted
    /\ pre.state.blank_i = NumBlanks(pre.state)
    /\ pre.state.score_tot > 0
    /\ IsAccepted([pre.state EXCEPT !.blank_i = 0], event.p)

(***************************************************************************)
(* C3: 0 <= scoreCorrect <= scoreTotal in every reachable state, and       *)
(* neither score decreases across a step other than resetGame.             *)
(***************************************************************************)
C3_ScoreMonotone ==
    /\ 0 <= session_state.score_ok
    /\ session_state.score_ok <= session_state.score_tot
    /\ ~WasReset =>
        /\ session_state.score_tot >= pre.state.score_tot
        /\ session_state.score_ok >= pre.state.score_ok

C3_Witness ==
    /\ Submitted
    /\ session_state.score_ok = pre.state.score_ok + 1
    /\ session_state.score_ok < session_state.score_tot

(***************************************************************************)
(* C4: a submitAnswer made while blankIndex < N increments scoreTotal by   *)
(* exactly 1; it increments scoreCorrect by 1 when the answer is correct   *)
(* and by 0 when it is not; an incorrect answer sets feedbackMessage to    *)
(* the incorrect-verdict message listing the accepted set joined with '/'. *)
(***************************************************************************)
C4_EveryAttemptCounts ==
    (Submitted /\ pre.state.blank_i < NumBlanks(pre.state)) =>
        /\ session_state.score_tot = pre.state.score_tot + 1
        /\ IF IsAccepted(pre.state, event.p)
           THEN session_state.score_ok = pre.state.score_ok + 1
           ELSE /\ session_state.score_ok = pre.state.score_ok
                /\ session_state.feedback = IncorrectMessage(pre.state)

(***************************************************************************)
(* C5: advanceCard at cardIndex = size()-1 resets cardIndex to 0,          *)
(* reshuffles the deck and sets deckJustCompleted; at cardIndex < size()-1 *)
(* it increments cardIndex by exactly 1 and leaves the deck order alone.   *)
(***************************************************************************)
C5_Wraparound ==
    Advanced =>
        IF pre.state.i = Len(pre.state.cards) - 1
        THEN /\ session_state.i = 0
             /\ session_state.finished
             /\ \E r \in Shuffles : session_state.cards = [k \in 1..NumCards |-> pre.state.cards[r[k]]]
        ELSE /\ session_state.i = pre.state.i + 1
             /\ session_state.cards = pre.state.cards

C5_Witness ==
    /\ Wrapped
    /\ ~pre.state.finished
    /\ session_state.cards # pre.state.cards

(***************************************************************************)
(* C6: an advanceCard that does not wrap past the last card leaves         *)
(* deckJustCompleted = false, also after an earlier wraparound.            *)
(***************************************************************************)
C6_FlagClearedWithoutWrap ==
    (Advanced /\ pre.state.i < Len(pre.state.cards) - 1) => ~session_state.finished

(***************************************************************************)
(* C7: after resetGame, from any reachable state, scoreCorrect, scoreTotal,*)
(* cardIndex and blankIndex are 0, feedbackMessage is the default prompt   *)
(* and deckJustCompleted is false.                                         *)
(***************************************************************************)
C7_ResetZeroes ==
    WasReset =>
        /\ session_state.score_ok = 0
        /\ session_state.score_tot = 0
        /\ session_state.i = 0
        /\ session_state.blank_i = 0
        /\ session_state.feedback = DefaultFeedback
        /\ ~session_state.finished

C7_Witness ==
    /\ WasReset
    /\ pre.state.score_ok > 0
    /\ pre.state.i > 0
    /\ pre.state.blank_i > 0
    /\ pre.state.feedback # DefaultFeedback
    /\ pre.state.finished

(***************************************************************************)
(* C8: the session deck is always a permutation of the loaded deck (same   *)
(* multiset of cards, same size), and only a wraparound or a resetGame     *)
(* changes the deck.                                                       *)
(***************************************************************************)
C8_DeckIsPermutation ==
    /\ Len(session_state.cards) = Len(Deck0)
    /\ SeqToBag(session_state.cards) = SeqToBag(Deck0)
    /\ ~(Wrapped \/ WasReset) => session_state.cards = pre.state.cards

C8_Witness ==
    /\ Wrapped \/ WasReset
    /\ session_state.cards # pre.state.cards
    /\ session_state.cards # Deck0

(***************************************************************************)
(* C9: advanceCard, wrapping or not, leaves both scores unchanged and sets *)
(* blankIndex to 0 and feedbackMessage to the default prompt.              *)
(***************************************************************************)
C9_AdvanceKeepsScore ==
    Advanced =>
        /\ session_state.score_ok = pre.state.score_ok
        /\ session_state.score_tot = pre.state.score_tot
        /\ session_state.blank_i = 0
        /\ session_state.feedback = DefaultFeedback

C9_Witness ==
    /\ Advanced
    /\ pre.state.score_ok > 0
    /\ pre.state.score_tot > pre.state.score_ok
    /\ pre.state.blank_i > 0
    /\ pre.state.feedback # DefaultFeedback

(***************************************************************************)
(* C10: submitAnswer leaves cardIndex, the deck order, deckJustCompleted   *)
(* and showTranslation as they were.                                       *)
(***************************************************************************)
C10_SubmitFrame ==
    Submitted =>
        /\ session_state.i = pre.state.i
        /\ session_state.cards = pre.state.cards
        /\ session_state.finished = pre.state.finished
        /\ session_state.show_fr = pre.state.show_fr

C10_Witness ==
    /\ Submitted
    /\ session_state.blank_i = pre.state.blank_i + 1
    /\ session_state.blank_i = NumBlanks(session_state)
    /\ pre.state.show_fr
    /\ pre.state.finished
    /\ pre.state.i > 0

(***************************************************************************)
(* Vocabulary of the properties of the renderer.                           *)
(***************************************************************************)
Rendered == input.fn = "render" /\ output.done

\* s without its spaces
Squeeze(s) == SelectSeq(s, LAMBDA c : c # " ")

\* number of places where x occurs in s
Occurrences(s, x) ==
    Cardinality({k \in 1..(Len(s) - Len(x) + 1) : SubSeq(s, k, k + Len(x) - 1) = x})

\* what stands for marker k (0-based) when blankIndex is b
Substitute(answers, k, b) ==
    IF k < b THEN answers[k + 1][1]
    ELSE IF k = b THEN <<"[", "_", "_", "_", "]">>
    ELSE Marker

\* the template with each marker replaced, spaces left out
Substituted(sentence_it, answers, b) ==
    LET parts == split(sentence_it, Marker)
    IN  concat([k \in 1..Len(parts) |->
                  Squeeze(parts[k]) \o
                  (IF k < Len(parts) THEN Substitute(answers, k - 1, b) ELSE <<>>)])

(***************************************************************************)
(* C11: for a template with N markers and blankIndex in [0, N], marker k   *)
(* is replaced by the first accepted answer of blank k when k < blankIndex,*)
(* by [___] when k = blankIndex and by ___ when k > blankIndex; the output *)
(* has exactly one [___] when blankIndex < N and none when blankIndex = N. *)
(***************************************************************************)
C11_RendererSubstitutes ==
    Rendered =>
        /\ Squeeze(output.val) = Substituted(input.it, input.answers, input.blank_i)
        /\ Occurrences(output.val, <<"[", "_", "_", "_", "]">>)
             = (IF input.blank_i < NumMarkers(input.it) THEN 1 ELSE 0)

C11_Witness ==
    /\ Rendered
    /\ NumMarkers(input.it) = 2
    /\ input.blank_i = 1
    /\ Len(input.answers[1]) = 2
    /\ Occurrences(output.val, <<"t", "r", "a">>) = 1

(***************************************************************************)
(* C12: the rendered string contains no two consecutive spaces, for every  *)
(* template, accepted-answer list and blankIndex in [0, N].  Stated here   *)
(* for the templates that have no two consecutive spaces of their own, so  *)
(* that every run of spaces comes from the substitution.                   *)
(***************************************************************************)
C12_NoDoubleSpace ==
    (Rendered /\ Occurrences(input.it, <<" ", " ">>) = 0) =>
        Occurrences(output.val, <<" ", " ">>) = 0

(***************************************************************************)
(* C13: the verdict does not depend on letter case: a submission s is      *)
(* judged correct against the accepted set A iff upper(s) = upper(a) for   *)
(* some a in A.                                                            *)
(***************************************************************************)
Evaluated == input.fn = "answer" /\ output.done

JudgedCorrect ==
    /\ output.val.score_ok = BeforeAnswer.score_ok + 1
    /\ output.val.blank_i = BeforeAnswer.blank_i + 1

C13_CaseInsensitive ==
    Evaluated =>
        (JudgedCorrect <=> \E k \in DOMAIN input.ans : upper(input.ans[k]) = upper(input.p))

C13_Witness ==
    /\ Evaluated
    /\ input.p = <<"f", "r", "a">>
    /\ input.ans = << <<"t","r","a">>, <<"F","R","A">> >>
    /\ JudgedCorrect

(***************************************************************************)
(* C14: a failed load (the source consulted is unavailable, is not a list, *)
(* or holds a card whose answers and explanations differ in length) is     *)
(* fatal: the run halts, no session is created, and no other source is     *)
(* used instead.                                                           *)
(***************************************************************************)
Loaded == input.fn = "load" /\ output.done

Mismatched(src) ==
    /\ src.kind = "list"
    /\ \E k \in DOMAIN src.data : Len(src.data[k].answers) # Len(src.data[k].explanations)

Fails(src) == src.kind # "list" \/ Mismatched(src)

\* the secret is consulted when present, cards.json otherwise
LoadFailed ==
    IF input.secret.kind = "absent" THEN Fails(input.file) ELSE Fails(input.secret)

C14_LoadFailureFatal ==
    (Loaded /\ LoadFailed) => (output.stopped /\ output.session = <<>>)

(***************************************************************************)
(* C14 as amended: the load is fatal exactly when neither source yields a  *)
(* JSON list, and then no session is created; a cards_json secret that is  *)
(* unreadable or not a list is replaced by cards.json, and a card whose    *)
(* lists differ in length is not detected: the session is created with the *)
(* first list found.                                                       *)
(***************************************************************************)
C14_FatalOnlyWithoutList ==
    Loaded =>
        /\ output.stopped <=> (input.secret.kind # "list" /\ input.file.kind # "list")
        /\ output.stopped => (output.session = <<>> /\ "error" \in {output.said[k] : k \in DOMAIN output.said})
        /\ ~output.stopped =>
             LET src == IF input.secret.kind = "list" THEN input.secret ELSE input.file
             IN  /\ SeqToBag(output.session.cards) = SeqToBag(src.data)
                 /\ output.session.i = 0

C14_Witness ==
    /\ Loaded
    /\ input.secret.kind = "invalid"
    /\ Mismatched(input.file)
    /\ ~output.stopped
    /\ output.session.cards # input.file.data

(***************************************************************************)
(* C15: cardIndex is in [0, len(deck)) in every reachable state and at     *)
(* every read of the current card (line 165), so the indexed access to the *)
(* deck never fails.                                                       *)
(***************************************************************************)
C15_CardIndexInRange ==
    /\ session_state.i \in 0..(Len(session_state.cards) - 1)
    /\ shown.i \in 0..(Len(session_state.cards) - 1)

C15_Witness ==
    /\ Wrapped
    /\ pre.state.finished
    /\ pre.state.score_tot > 0
    /\ session_state.i = 0

(***************************************************************************)
(* C16: blankIndex is in [0, N], N the number of blanks of the card at     *)
(* cardIndex, for decks whose cards differ in their number of blanks, in   *)
(* every reachable state and at every rendering.                           *)
(***************************************************************************)
C16_BlankIndexInRange ==
    /\ session_state.blank_i \in 0..NumBlanks(session_state)
    /\ shown.blank_i \in 0..Len(AllCards[card].answers)

\* a press judged against the previous card solves a card of one blank
C16_Witness ==
    /\ Submitted
    /\ pre.card # pre.state.cards[pre.state.i + 1]
    /\ Len(AllCards[pre.card].answers) > NumBlanks(session_state)
    /\ session_state.blank_i = NumBlanks(session_state)

(***************************************************************************)
(* C17: a preposition press is evaluated with the accepted set, the blank  *)
(* count and the explanation of the card at cardIndex at the moment of     *)
(* evaluation, also right after a 'next card' or 'restart' press.          *)
(***************************************************************************)
C17_EvaluatedOnCurrentCard ==
    Submitted => pre.card = pre.state.cards[pre.state.i + 1]

(***************************************************************************)
(* C18: at the end of the script run of any button press, the sentence,    *)
(* the progression index and the score counters rendered in that run are   *)
(* those of the session state at the end of the run.                       *)
(***************************************************************************)
Pressed == event.kind \in {"prep", "rejouer", "suivante", "recommencer"}

C18_RenderingFollowsMutation ==
    Pressed =>
        /\ shown.sentence = render_sentence_progress(CardAt(session_state).it,
                                CardAt(session_state).answers, session_state.blank_i)
        /\ shown.i = session_state.i
        /\ shown.score_ok = session_state.score_ok
        /\ shown.score_tot = session_state.score_tot

(***************************************************************************)
(* C19: the session state is created once: on every script rerun after the *)
(* first, although load_cards returns a freshly shuffled list, the deck    *)
(* order, cardIndex, blankIndex, the scores, the feedback, showTranslation *)
(* and the completed flag keep their values, each being changed only by    *)
(* the handler of the event that assigns it.                               *)
(***************************************************************************)
C19_SessionCreatedOnce ==
    event.kind # "start" =>
        /\ ~(Wrapped \/ WasReset) =>
             /\ session_state.cards = pre.state.cards
             /\ session_state.finished = pre.state.finished
        /\ ~(Advanced \/ WasReset) => session_state.i = pre.state.i
        /\ ~(Submitted \/ Advanced \/ WasReset) =>
             /\ session_state.blank_i = pre.state.blank_i
             /\ session_state.feedback = pre.state.feedback
        /\ ~(Submitted \/ WasReset) =>
             /\ session_state.score_ok = pre.state.score_ok
             /\ session_state.score_tot = pre.state.score_tot
        /\ session_state.show_fr = (IF event.kind = "toggle" THEN ~pre.state.show_fr
                                    ELSE pre.state.show_fr)

C19_Witness ==
    /\ event.kind = "toggle"
    /\ session_state.cards # Deck0
    /\ session_state.i > 0
    /\ session_state.blank_i > 0
    /\ session_state.score_ok > 0
    /\ session_state.feedback # DefaultFeedback
    /\ session_state.finished
    /\ session_state.show_fr

(***************************************************************************)
(* C20: between two shuffles of the deck, repeated advanceCard calls take  *)
(* cardIndex through 0, 1, ..., size()-1 with the deck order fixed: the    *)
(* cards that have been current since the last shuffle are the first       *)
(* cardIndex+1 cards of the deck, none twice, and at a wraparound every    *)
(* card of the deck has been current.                                      *)
(***************************************************************************)
C20_EachCardOncePerCycle ==
    /\ seen = SubSeq(session_state.cards, 1, session_state.i + 1)
    /\ \A a, b \in DOMAIN seen : seen[a] = seen[b] => a = b
    /\ Wrapped => pre.seen = pre.state.cards
    /\ (Advanced /\ ~Wrapped) =>
         /\ session_state.i = pre.state.i + 1
         /\ session_state.cards = pre.state.cards

C20_Witness ==
    /\ Advanced
    /\ ~Wrapped
    /\ pre.state.finished
    /\ Len(seen) = Len(session_state.cards)
    /\ seen # Deck0

====
